---- MODULE Spec2Model ----
(***************************************************************************)
(* Index Entry traversal (src/src/index_entry.rs) and File Record decoding *)
(* (src/src/ntfs_file.rs) of the ntfs crate, as state machines over byte   *)
(* ranges.  Offsets are 0-based as in the code; byte sequences are 1-based *)
(* TLA+ sequences, so the byte at offset o of b is b[o + 1].               *)
(***************************************************************************)
EXTENDS Integers, Sequences, FiniteSets, TLC

VARIABLES
    vol,              \* bytes of the attribute value holding the index entries
    debugAssertions,  \* build configuration: are debug_assert!s compiled in
    cstate,           \* "unborn" | "live" | "panicked": the NtfsIndexEntries object
    pos,              \* NtfsIndexEntries.value.stream_position()
    end,              \* NtfsIndexEntries.end
    attached,         \* 0, or the reader an NtfsIndexEntriesAttached holds
    calls,            \* number of next calls made on the cursor
    lastRes,          \* what the most recent next call returned
    accRes,           \* what the most recent accessor call on lastRes.entry returned
    twin,             \* the same cursor iterated without ever detaching
    other,            \* a second NtfsIndexEntries over the same value
    disk,             \* bytes of the volume holding File Records
    fileRes           \* what the most recent NtfsFile::new returned

vars == <<vol, debugAssertions, cstate, pos, end, attached, calls,
          lastRes, accRes, twin, other, disk, fileRes>>

indexVars == <<vol, debugAssertions, cstate, pos, end, attached, calls,
               lastRes, accRes, twin, other>>

fileVars == <<disk, fileRes>>

----------------------------------------------------------------------------
\* Bounds of the model.

\* Number of 16-byte slots the attribute value is made of.
NumSlots == 3

\* Cap on the number of next calls on one cursor (a zero-length entry would
\* otherwise be yielded for ever).
MaxCalls == 3

----------------------------------------------------------------------------
\* Program constants.

INDEX_ENTRY_HEADER_SIZE == 16

HAS_SUBNODE == 1

LAST_ENTRY == 2

\* mem::size_of::<u64>()
SizeOfU64 == 8

\* Bytes the derived BinRead of IndexEntryHeader consumes: u64 + u16 + u16 + u8.
IndexEntryHeaderFields == 13

----------------------------------------------------------------------------
\* Bit operations and little-endian decoding.

RECURSIVE BitAnd(_, _)
BitAnd(a, b) ==
    IF a = 0 \/ b = 0 THEN 0
    ELSE (IF a % 2 = 1 /\ b % 2 = 1 THEN 1 ELSE 0) + 2 * BitAnd(a \div 2, b \div 2)

\* read_le::<u8> at offset off of b
U8At(b, off) == b[off + 1]

\* read_le::<u16> at offset off of b
U16LE(b, off) == b[off + 1] + 256 * b[off + 2]

\* read_le::<u64> at offset off of b, as four 16-bit limbs, least significant
\* first (the value is limb1 + 2^16 limb2 + 2^32 limb3 + 2^48 limb4).
U64LE(b, off) ==
    << U16LE(b, off), U16LE(b, off + 2), U16LE(b, off + 4), U16LE(b, off + 6) >>

----------------------------------------------------------------------------
\* The byte-range handle (NtfsAttributeValue) and the key decoder: external
\* collaborators, modelled from their interface.

\* What goes wrong with the reader during one call: nothing, a read, or a seek.
IoOutcomes == {"ok", "read_err", "seek_err"}

\* value.len()
ValueLen(b) == Len(b)

\* Can n bytes be read at stream position p: the reader must not fail and the
\* bytes must lie inside the value.
ValueReadOk(b, p, n, io) == io # "read_err" /\ p >= 0 /\ p + n <= ValueLen(b)

\* value.seek(fs, SeekFrom::Start(n)) / SeekFrom::Current(n) from position p:
\* the new position, or a failure that leaves the position where it was.
ValueSeek(p, whence, n, io) ==
    LET target == IF whence = "Start" THEN n ELSE p + n
    IN  IF io = "seek_err" \/ target < 0
        THEN [ok |-> FALSE, pos |-> p]
        ELSE [ok |-> TRUE, pos |-> target]

\* K::new(fs, value, length): the key's bytes, or a decode failure.
StructuredValueNew(b, p, length, io) ==
    IF ValueReadOk(b, p, length, io)
    THEN [ok |-> TRUE, val |-> SubSeq(b, p + 1, p + length)]
    ELSE [ok |-> FALSE, val |-> <<>>]

----------------------------------------------------------------------------
\* NtfsIndexEntry.

\* #[derive(BinRead)] struct IndexEntryHeader, decoded at offset p
IndexEntryHeader(b, p) ==
    [file_ref           |-> U64LE(b, p),
     index_entry_length |-> U16LE(b, p + 8),
     key_length         |-> U16LE(b, p + 10),
     flags              |-> U8At(b, p + 12)]

NoHeader ==
    [file_ref |-> <<0, 0, 0, 0>>, index_entry_length |-> 0, key_length |-> 0,
     flags |-> 0]

NoEntry == [header |-> NoHeader, value |-> 0]

\* NtfsIndexEntryFlags::from_bits_truncate(self.header.flags)
EntryFlags(entry) == BitAnd(entry.header.flags, HAS_SUBNODE + LAST_ENTRY)

\* bitflags contains()
Contains(bits, flag) == BitAnd(bits, flag) = flag

\* NtfsIndexEntry::new(fs, value): the header read at the handle's position,
\* stored with the handle as it was passed in.
NtfsIndexEntryNew(b, value, io) ==
    IF ValueReadOk(b, value, IndexEntryHeaderFields, io)
    THEN [ok |-> TRUE, entry |-> [header |-> IndexEntryHeader(b, value), value |-> value]]
    ELSE [ok |-> FALSE, entry |-> NoEntry]

\* Only the stored key_length is trusted
HasNoKeyByLength(entry) == entry.header.key_length = 0

\* The test that opens key_structured_value
HasNoKey(entry) ==
    entry.header.key_length = 0 \/ Contains(EntryFlags(entry), LAST_ENTRY)

\* The key is looked for right after the 13 bytes the header's fields
\* occupy, not after the 16-byte header
KeyStructuredValueAfterFields(b, entry, io) ==
    IF entry.header.key_length = 0 \/ Contains(EntryFlags(entry), LAST_ENTRY)
    THEN [kind |-> "None", val |-> <<>>, decoderCalled |-> FALSE]
    ELSE LET s == ValueSeek(entry.value, "Current", IndexEntryHeaderFields, io)
         IN  IF ~s.ok
             THEN [kind |-> "Err", val |-> <<>>, decoderCalled |-> FALSE]
             ELSE LET k == StructuredValueNew(b, s.pos, entry.header.key_length, io)
                  IN  [kind |-> IF k.ok THEN "Ok" ELSE "Err", val |-> k.val,
                       decoderCalled |-> TRUE]

\* NtfsIndexEntry::key_structured_value(fs)
KeyStructuredValue(b, entry, io) ==
    IF HasNoKey(entry)
    THEN [kind |-> "None", val |-> <<>>, decoderCalled |-> FALSE]
    ELSE LET s == ValueSeek(entry.value, "Current", INDEX_ENTRY_HEADER_SIZE, io)
         IN  IF ~s.ok
             THEN [kind |-> "Err", val |-> <<>>, decoderCalled |-> FALSE]
             ELSE LET k == StructuredValueNew(b, s.pos, entry.header.key_length, io)
                  IN  [kind |-> IF k.ok THEN "Ok" ELSE "Err", val |-> k.val,
                       decoderCalled |-> TRUE]

\* The VCN is looked for after the entry instead of in its last 8 bytes
SubnodeSeekOffsetPastEntry(entry) == entry.header.index_entry_length

\* The relative seek subnode_vcn makes from the entry's start
SubnodeSeekOffset(entry) == entry.header.index_entry_length - SizeOfU64

\* NtfsIndexEntry::subnode_vcn(fs)
SubnodeVcn(b, entry, io) ==
    IF ~Contains(EntryFlags(entry), HAS_SUBNODE)
    THEN [kind |-> "None", val |-> <<>>, decoderCalled |-> FALSE]
    ELSE LET s == ValueSeek(entry.value, "Current", SubnodeSeekOffset(entry), io)
         IN  IF ~s.ok \/ ~ValueReadOk(b, s.pos, SizeOfU64, io)
             THEN [kind |-> "Err", val |-> <<>>, decoderCalled |-> FALSE]
             ELSE [kind |-> "Ok", val |-> U64LE(b, s.pos), decoderCalled |-> FALSE]

\* The accessor seeks the entry's own handle, which stays where the seek
\* left it
EntryAfterAccessSought(entry, offset, io) ==
    [entry EXCEPT !.value = ValueSeek(entry.value, "Current", offset, io).pos]

\* The entry after an accessor that seeks by offset: key_structured_value and
\* subnode_vcn take &self and seek self.value.clone(), so the entry's header
\* and handle are as before
EntryAfterAccess(entry, offset, io) == entry

----------------------------------------------------------------------------
\* NtfsIndexEntries.

\* No check at all, whatever the build
NewAcceptsUnchecked(b, e, dbg) == TRUE

\* NtfsIndexEntries::new(value, end): does construction go through.  The
\* debug_assert! is compiled in only when debug assertions are enabled.
NewAccepts(b, e, dbg) == ~dbg \/ e <= ValueLen(b)

\* Off by one: a cursor standing exactly at end is not seen as exhausted
ExhaustedStrict(p, e) == p > e

\* The exhaustion test that opens next
Exhausted(p, e) == p >= e

\* An exhausted cursor rewinds to the start of the value
ExhaustedPositionRewound(p, e) == 0

\* Where the cursor is left when next returns None: nothing is touched
ExhaustedPosition(p, e) == p

\* A decode error steps the cursor over the header it could not read
DecodeErrorPositionSkipped(p, e) == p + INDEX_ENTRY_HEADER_SIZE

\* A decode error moves the cursor to end, fusing the iteration
DecodeErrorPositionFused(p, e) == e

\* Where the cursor is left when iter_try! returns the header's decode error
DecodeErrorPosition(p, e) == p

\* An entry that is not the last seeks to its declared length counted from
\* the start of the value
AdvanceSeekFromStart(entry, p, e, io) ==
    IF Contains(EntryFlags(entry), LAST_ENTRY)
    THEN ValueSeek(p, "Start", e, io)
    ELSE ValueSeek(p, "Start", entry.header.index_entry_length, io)

\* An entry that is not the last advances by the header's size, whatever
\* length it declares
AdvanceSeekByHeaderSize(entry, p, e, io) ==
    IF Contains(EntryFlags(entry), LAST_ENTRY)
    THEN ValueSeek(p, "Start", e, io)
    ELSE ValueSeek(p, "Current", INDEX_ENTRY_HEADER_SIZE, io)

\* The LAST_ENTRY flag is ignored: every entry advances by its declared length
AdvanceSeekIgnoringLast(entry, p, e, io) ==
    ValueSeek(p, "Current", entry.header.index_entry_length, io)

\* The seek that follows a decoded entry: to end after the last entry, else
\* forward by the entry's declared length
AdvanceSeek(entry, p, e, io) ==
    IF Contains(EntryFlags(entry), LAST_ENTRY)
    THEN ValueSeek(p, "Start", e, io)
    ELSE ValueSeek(p, "Current", entry.header.index_entry_length, io)

\* NtfsIndexEntries::next(fs) at position p: the item returned (for an error
\* item, the operation the error comes from) and the position the cursor is
\* left at.
NtfsIndexEntriesNext(b, p, e, io) ==
    IF Exhausted(p, e)
    THEN [kind |-> "None", err |-> "none", entry |-> NoEntry,
          pos |-> ExhaustedPosition(p, e)]
    ELSE LET r == NtfsIndexEntryNew(b, p, io)
         IN  IF ~r.ok
             THEN [kind |-> "Err", err |-> "decode", entry |-> NoEntry,
                   pos |-> DecodeErrorPosition(p, e)]
             ELSE LET s == AdvanceSeek(r.entry, p, e, io)
                  IN  IF ~s.ok
                      THEN [kind |-> "Err", err |-> "seek", entry |-> NoEntry,
                            pos |-> s.pos]
                      ELSE [kind |-> "Ok", err |-> "none", entry |-> r.entry,
                            pos |-> s.pos]

\* detach hands back a cursor rewound to the start of the value
DetachedCursorRewound(p, e) == [pos |-> 0, end |-> e]

\* NtfsIndexEntriesAttached::detach(): the cursor handed back
DetachedCursor(p, e) == [pos |-> p, end |-> e]

\* NtfsIndexEntries::attach(fs) / NtfsIndexEntriesAttached::new(fs, index_entries)
AttachedCursor(p, e) == [pos |-> p, end |-> e]

\* The clone of a cursor starts over at the beginning of the value
CloneCursorRewound(p, e) == [pos |-> 0, end |-> e]

\* #[derive(Clone)] on NtfsIndexEntries: the value, with the stream position
\* it carries, and end are copied field by field
CloneCursor(p, e) == [pos |-> p, end |-> e]

----------------------------------------------------------------------------
\* The byte ranges the traversal is run over: NumSlots slots of 16 bytes, each
\* an encoded entry header.  A 32-byte entry spans two slots: the second one's
\* bytes are its key and, in the last 8 bytes, its subnode VCN.

\* An IndexEntryHeader on disk: file_ref 0x0105, then the three fields
\* little-endian, then 3 reserved bytes.
HeaderSlot(len, keylen, flags) ==
    << 5, 1, 0, 0, 0, 0, 0, 0,
       len % 256, len \div 256, keylen % 256, keylen \div 256, flags, 0, 0, 0 >>

Slots ==
    { HeaderSlot(32, 4, HAS_SUBNODE),
      HeaderSlot(16, 0, LAST_ENTRY), HeaderSlot(16, 4, LAST_ENTRY + HAS_SUBNODE),
      HeaderSlot(0, 0, HAS_SUBNODE), HeaderSlot(16, 0, 0) }

RECURSIVE SlotSeqs(_)
SlotSeqs(n) ==
    IF n = 0 THEN { <<>> }
    ELSE { s \o t : s \in Slots, t \in SlotSeqs(n - 1) }

Volumes == SlotSeqs(NumSlots)

\* Stream positions a value is handed to NtfsIndexEntries::new at, and the end
\* offsets passed with it (the last one lies beyond the value).
StartChoices == { 0 }

EndChoices == { 16 * k : k \in 0..(NumSlots + 1) } \cup { 24 }

Readers == { 1, 2 }

\* A next call as the caller saw it: the item and the position the call began
\* at.
NoItem == [kind |-> "NoCall", err |-> "none", entry |-> NoEntry, start |-> 0]

\* lastRes: the most recent call with the reader that served it (0: one
\* borrowed by a bare cursor), whether that reader differs from the one an
\* earlier item was pulled through, and the call before it.
NoCall == [cur |-> NoItem, reader |-> 0, resumed |-> FALSE, prev |-> NoItem]

\* accRes: the most recent accessor call, the entry it was called on as the
\* call left it, and that entry as next yielded it (origin).
NoAccess ==
    [op |-> "none", kind |-> "None", val |-> <<>>, decoderCalled |-> FALSE,
     entry |-> NoEntry, io |-> "ok", origin |-> NoEntry]

\* The entry as yielded: an entry accessed before keeps the origin recorded
\* then.
OriginOf(entry, acc) ==
    IF acc.op # "none" /\ entry = acc.entry THEN acc.origin ELSE entry

NoTwin == [pos |-> 0, end |-> 0, kind |-> "NoCall", err |-> "none", entry |-> NoEntry]

\* other: the second cursor, the item its most recent next call returned, and
\* the same cursor iterated with nothing else using the reader in between.
NoOther == [live |-> FALSE, pos |-> 0, end |-> 0, item |-> NoItem, solo |-> NoTwin]

----------------------------------------------------------------------------
\* Actions of the index traversal.

IndexInit ==
    /\ vol \in Volumes
    /\ debugAssertions \in BOOLEAN
    /\ cstate = "unborn"
    /\ pos = 0
    /\ end = 0
    /\ attached = 0
    /\ calls = 0
    /\ lastRes = NoCall
    /\ accRes = NoAccess
    /\ twin = NoTwin
    /\ other = NoOther

\* NtfsIndexEntries::new(value, end), the value positioned at s
New(s, e) ==
    /\ cstate = "unborn"
    /\ IF NewAccepts(vol, e, debugAssertions)
       THEN /\ cstate' = "live"
            /\ pos' = s
            /\ end' = e
            /\ twin' = [twin EXCEPT !.pos = s, !.end = e]
       ELSE /\ cstate' = "panicked"
            /\ UNCHANGED <<pos, end, twin>>
    /\ UNCHANGED <<vol, debugAssertions, attached, calls, lastRes, accRes, other, fileVars>>

\* NtfsIndexEntries::attach(fs)
Attach(r) ==
    /\ cstate = "live"
    /\ attached = 0
    /\ attached' = r
    /\ pos' = AttachedCursor(pos, end).pos
    /\ end' = AttachedCursor(pos, end).end
    /\ UNCHANGED <<vol, debugAssertions, cstate, calls, lastRes, accRes, twin,
                   other, fileVars>>

\* NtfsIndexEntriesAttached::detach()
Detach ==
    /\ cstate = "live"
    /\ attached # 0
    /\ attached' = 0
    /\ pos' = DetachedCursor(pos, end).pos
    /\ end' = DetachedCursor(pos, end).end
    /\ UNCHANGED <<vol, debugAssertions, cstate, calls, lastRes, accRes, twin,
                   other, fileVars>>

\* One next call on the cursor, and the same call, with the same outcome of
\* the reader's operations, on the twin iteration that never detaches.
Advance(io) ==
    /\ calls < MaxCalls
    /\ LET r == NtfsIndexEntriesNext(vol, pos, end, io)
           u == NtfsIndexEntriesNext(vol, twin.pos, twin.end, io)
       IN  /\ pos' = r.pos
           /\ lastRes' = [cur     |-> [kind |-> r.kind, err |-> r.err,
                                       entry |-> r.entry, start |-> pos],
                          reader  |-> attached,
                          resumed |-> /\ attached # 0
                                      /\ lastRes.reader \notin {0, attached}
                                      /\ lastRes.cur.kind = "Ok",
                          prev    |-> lastRes.cur]
           /\ twin' = [pos |-> u.pos, end |-> twin.end, kind |-> u.kind,
                       err |-> u.err, entry |-> u.entry]
    /\ calls' = calls + 1
    /\ UNCHANGED <<vol, debugAssertions, cstate, end, attached, accRes, other, fileVars>>

\* NtfsIndexEntries::next(fs) on a bare cursor
NextDetached(io) ==
    /\ cstate = "live"
    /\ attached = 0
    /\ Advance(io)

\* <NtfsIndexEntriesAttached as Iterator>::next()
NextAttached(io) ==
    /\ cstate = "live"
    /\ attached # 0
    /\ Advance(io)

\* Entries the caller holds: the one just yielded and the one last accessed.
HeldEntries ==
    (IF lastRes.cur.kind = "Ok" THEN { lastRes.cur.entry } ELSE {})
        \cup (IF accRes.op # "none" THEN { accRes.entry } ELSE {})

\* entry.key_structured_value(fs)
KeyValue(entry, io) ==
    /\ entry \in HeldEntries
    /\ LET k == KeyStructuredValue(vol, entry, io)
       IN  accRes' = [op |-> "key", kind |-> k.kind, val |-> k.val,
                      decoderCalled |-> k.decoderCalled,
                      entry |-> IF HasNoKey(entry) THEN entry
                                ELSE EntryAfterAccess(entry, INDEX_ENTRY_HEADER_SIZE, io),
                      io |-> io, origin |-> OriginOf(entry, accRes)]
    /\ UNCHANGED <<vol, debugAssertions, cstate, pos, end, attached, calls,
                   lastRes, twin, other, fileVars>>

\* entry.subnode_vcn(fs)
Vcn(entry, io) ==
    /\ entry \in HeldEntries
    /\ LET k == SubnodeVcn(vol, entry, io)
       IN  accRes' = [op |-> "vcn", kind |-> k.kind, val |-> k.val,
                      decoderCalled |-> k.decoderCalled,
                      entry |-> IF Contains(EntryFlags(entry), HAS_SUBNODE)
                                THEN EntryAfterAccess(entry, SubnodeSeekOffset(entry), io)
                                ELSE entry,
                      io |-> io, origin |-> OriginOf(entry, accRes)]
    /\ UNCHANGED <<vol, debugAssertions, cstate, pos, end, attached, calls,
                   lastRes, twin, other, fileVars>>


----------------------------------------------------------------------------
\* NtfsFile (File Records).

\* Number of File Records on the modelled volume.
NumRecords == 2

\* Bytes the derived BinRead of FileRecordHeader consumes: the 16-byte
\* RecordHeader, then u16 u16 u16 u16 u32 u32 u64 u16.
FileRecordHeaderSize == 42

IN_USE == 1

IS_DIRECTORY == 2

\* b"FILE"
ExpectedSignature == << 70, 73, 76, 69 >>

\* #[derive(BinRead)] struct FileRecordHeader, decoded at offset p.  The
\* RecordHeader (record.rs) starts with the 4 signature bytes and is taken
\* with its NTFS layout of 16 bytes: signature, u16, u16, u64.
FileRecordHeader(b, p) ==
    [signature              |-> SubSeq(b, p + 1, p + 4),
     sequence_number        |-> U16LE(b, p + 16),
     hard_link_count        |-> U16LE(b, p + 18),
     first_attribute_offset |-> U16LE(b, p + 20),
     flags                  |-> U16LE(b, p + 22),
     used_size              |-> << U16LE(b, p + 24), U16LE(b, p + 26) >>,
     allocated_size         |-> << U16LE(b, p + 28), U16LE(b, p + 30) >>,
     base_file_record       |-> U64LE(b, p + 32),
     next_attribute_number  |-> U16LE(b, p + 40)]

NoFileHeader ==
    [signature |-> <<>>, sequence_number |-> 0, hard_link_count |-> 0,
     first_attribute_offset |-> 0, flags |-> 0, used_size |-> <<0, 0>>,
     allocated_size |-> <<0, 0>>, base_file_record |-> <<0, 0, 0, 0>>,
     next_attribute_number |-> 0]

NoNtfsFile == [header |-> NoFileHeader, position |-> 0]

NoError == [position |-> 0, expected |-> <<>>, actual |-> <<>>]

\* Only the first three bytes are compared
SignatureMatchesPrefix(signature, expected) ==
    SubSeq(signature, 1, 3) = SubSeq(expected, 1, 3)

\* signature == expected, on two 4-byte arrays
SignatureMatches(signature, expected) == signature = expected

\* NtfsFile::validate_signature(): Ok(()) or the InvalidNtfsFileSignature error
ValidateSignature(file) ==
    IF SignatureMatches(file.header.signature, ExpectedSignature)
    THEN [ok |-> TRUE, err |-> NoError]
    ELSE [ok |-> FALSE,
          err |-> [position |-> file.position, expected |-> ExpectedSignature,
                   actual |-> file.header.signature]]

\* NtfsFile::new(ntfs, fs, position)
NtfsFileNew(b, position, io) ==
    IF io = "seek_err" \/ io = "read_err" \/ position + FileRecordHeaderSize > Len(b)
    THEN [kind |-> "ErrIo", file |-> NoNtfsFile, err |-> NoError]
    ELSE LET file == [header |-> FileRecordHeader(b, position), position |-> position]
             v == ValidateSignature(file)
         IN  IF v.ok
             THEN [kind |-> "Ok", file |-> file, err |-> NoError]
             ELSE [kind |-> "ErrSig", file |-> NoNtfsFile, err |-> v.err]

\* Only IN_USE survives the truncation
NtfsFileFlagsInUseOnly(file) == BitAnd(file.header.flags, IN_USE)

\* NtfsFile::flags(): NtfsFileFlags::from_bits_truncate(self.header.flags)
NtfsFileFlags(file) == BitAnd(file.header.flags, IN_USE + IS_DIRECTORY)

\* A File Record header on disk: the signature, the rest of the RecordHeader,
\* then sequence number 1, one hard link, first attribute at 56, the flags,
\* used_size 400, allocated_size 1024, no base record, next attribute 3.
RecordBytes(sig, flags) ==
    sig \o << 48, 0, 3, 0, 0, 0, 0, 0, 0, 0, 0, 0 >>
        \o << 1, 0, 1, 0, 56, 0, flags % 256, flags \div 256 >>
        \o << 144, 1, 0, 0, 0, 4, 0, 0 >>
        \o << 0, 0, 0, 0, 0, 0, 0, 0, 3, 0 >>

\* "FILE", "BAAD", "file", "FILF", "GILE"
Signatures ==
    { ExpectedSignature, << 66, 65, 65, 68 >>, << 102, 105, 108, 101 >>,
      << 70, 73, 76, 70 >>, << 71, 73, 76, 69 >> }

StoredFlags == { 0, 1, 3, 4, 32770, 65535 }

Records == { RecordBytes(sig, f) : sig \in Signatures, f \in StoredFlags }

RECURSIVE RecordSeqs(_)
RecordSeqs(n) ==
    IF n = 0 THEN { <<>> }
    ELSE { s \o t : s \in Records, t \in RecordSeqs(n - 1) }

Disks == RecordSeqs(NumRecords)

\* Positions NtfsFile::new is called with: the start of each record, and one
\* from which the header runs past the end of the volume.
Positions(b) == { FileRecordHeaderSize * k : k \in 0..(Len(b) \div FileRecordHeaderSize) }

NoFile ==
    [kind |-> "NoCall", arg |-> 0, io |-> "ok", file |-> NoNtfsFile,
     err |-> NoError, flagsCalled |-> FALSE, flags |-> 0]

\* NtfsFile::new(ntfs, fs, position)
FileNew(position, io) ==
    /\ LET r == NtfsFileNew(disk, position, io)
       IN  fileRes' = [kind |-> r.kind, arg |-> position, io |-> io,
                       file |-> r.file, err |-> r.err, flagsCalled |-> FALSE,
                       flags |-> 0]
    /\ UNCHANGED <<disk, indexVars>>

\* file.flags() on the NtfsFile last constructed
FileFlags ==
    /\ fileRes.kind = "Ok"
    /\ fileRes' = [fileRes EXCEPT !.flagsCalled = TRUE,
                                  !.flags = NtfsFileFlags(fileRes.file)]
    /\ UNCHANGED <<disk, indexVars>>

FileInit ==
    /\ disk \in Disks
    /\ fileRes = NoFile
    /\ vol = <<>>
    /\ debugAssertions = FALSE
    /\ cstate = "unborn"
    /\ pos = 0
    /\ end = 0
    /\ attached = 0
    /\ calls = 0
    /\ lastRes = NoCall
    /\ accRes = NoAccess
    /\ twin = NoTwin
    /\ other = NoOther

FileNext ==
    \/ \E position \in Positions(disk), io \in IoOutcomes : FileNew(position, io)
    \/ FileFlags

SpecFile == FileInit /\ [][FileNext]_vars

----------------------------------------------------------------------------
\* The index traversal as a whole.

Init ==
    /\ IndexInit
    /\ disk = <<>>
    /\ fileRes = NoFile

Next ==
    \/ \E s \in StartChoices, e \in EndChoices : New(s, e)
    \/ \E r \in Readers : Attach(r)
    \/ Detach
    \/ \E io \in IoOutcomes : NextDetached(io)
    \/ \E io \in IoOutcomes : NextAttached(io)

Spec == Init /\ [][Next]_vars

\* The entries a traversal yields, and their accessors.
EntryNext ==
    \/ \E s \in StartChoices, e \in EndChoices : New(s, e)
    \/ \E io \in IoOutcomes : NextDetached(io)
    \/ \E entry \in HeldEntries, io \in IoOutcomes : KeyValue(entry, io)
    \/ \E entry \in HeldEntries, io \in IoOutcomes : Vcn(entry, io)

SpecEntry == Init /\ [][EntryNext]_vars

----------------------------------------------------------------------------
\* The two-entry node: a 48-byte value holding a non-last entry of 32 bytes
\* with a 4-byte key at offset 0 and the last entry at offset 32, traversed
\* with end = the value's length (48) through a reader that does not fail.

KeyChoices == { << 65, 66, 67, 68 >>, << 0, 0, 0, 1 >>, << 255, 254, 253, 252 >> }

\* The first entry (with or without a subnode), its key padded to 8 bytes,
\* its last 8 bytes, and the last entry.
ScenarioVolume(flags, key, tail) ==
    HeaderSlot(32, 4, flags) \o key \o << 0, 0, 0, 0 >>
        \o << tail, 2, 0, 0, 1, 0, 0, 0 >> \o HeaderSlot(16, 0, LAST_ENTRY)

ScenarioVolumes ==
    { ScenarioVolume(f, k, t) : f \in {0, HAS_SUBNODE}, k \in KeyChoices, t \in {0, 7} }

ScenarioInit ==
    /\ vol \in ScenarioVolumes
    /\ debugAssertions \in BOOLEAN
    /\ cstate = "unborn"
    /\ pos = 0
    /\ end = 0
    /\ attached = 0
    /\ calls = 0
    /\ lastRes = NoCall
    /\ accRes = NoAccess
    /\ twin = NoTwin
    /\ other = NoOther
    /\ disk = <<>>
    /\ fileRes = NoFile

ScenarioNext ==
    \/ New(0, ValueLen(vol))
    \/ NextDetached("ok")
    \/ \E entry \in HeldEntries : KeyValue(entry, "ok")
    \/ \E entry \in HeldEntries : Vcn(entry, "ok")

SpecScenario == ScenarioInit /\ [][ScenarioNext]_vars

----------------------------------------------------------------------------
\* A caller draining the cursor: `while let Some(item) = entries.next(fs)`
\* over a value all of whose reads succeed (end within the value, a reader
\* that does not fail).  The loop is not bounded, so here calls counts the
\* calls modulo MaxCalls.

TermNew(e) ==
    /\ e <= ValueLen(vol)
    /\ New(0, e)

\* One iteration of the loop: it is left when next returns None.
LoopNext ==
    /\ cstate = "live"
    /\ attached = 0
    /\ lastRes.cur.kind # "None"
    /\ LET r == NtfsIndexEntriesNext(vol, pos, end, "ok")
       IN  /\ pos' = r.pos
           /\ lastRes' = [cur     |-> [kind |-> r.kind, err |-> r.err,
                                       entry |-> r.entry, start |-> pos],
                          reader  |-> 0,
                          resumed |-> FALSE,
                          prev    |-> lastRes.cur]
    /\ calls' = (calls % MaxCalls) + 1
    /\ UNCHANGED <<vol, debugAssertions, cstate, end, attached, accRes, twin,
                   other, fileVars>>

TermNext ==
    \/ \E e \in EndChoices : TermNew(e)
    \/ LoopNext

\* The caller keeps calling next as long as its loop has not ended.
SpecTerm == Init /\ [][TermNext]_vars /\ WF_vars(LoopNext)

----------------------------------------------------------------------------
\* Two cursors over one value whose next calls borrow the same reader in
\* turn.  calls counts the calls of both.  The values start with a 16-byte
\* entry that is not the last, so that there is an entry to clone the cursor
\* after.

ShareVolumes == { HeaderSlot(16, 0, 0) \o t : t \in SlotSeqs(NumSlots - 1) }

ShareInit ==
    /\ Init
    /\ vol \in ShareVolumes

\* entries.clone()
CloneEntries ==
    /\ cstate = "live"
    /\ ~other.live
    /\ other' = [live |-> TRUE,
                 pos  |-> CloneCursor(pos, end).pos,
                 end  |-> CloneCursor(pos, end).end,
                 item |-> NoItem,
                 solo |-> [NoTwin EXCEPT !.pos = pos, !.end = end]]
    /\ UNCHANGED <<vol, debugAssertions, cstate, pos, end, attached, calls,
                   lastRes, accRes, twin, fileVars>>

\* NtfsIndexEntries::new(value, e) for a second, unrelated cursor
NewOther(e) ==
    /\ cstate = "live"
    /\ ~other.live
    /\ IF NewAccepts(vol, e, debugAssertions)
       THEN /\ other' = [live |-> TRUE, pos |-> 0, end |-> e, item |-> NoItem,
                         solo |-> [NoTwin EXCEPT !.pos = 0, !.end = e]]
            /\ UNCHANGED cstate
       ELSE /\ cstate' = "panicked"
            /\ UNCHANGED other
    /\ UNCHANGED <<vol, debugAssertions, pos, end, attached, calls,
                   lastRes, accRes, twin, fileVars>>

\* other.next(fs), and the same call on the second cursor run alone
NextOther(io) ==
    /\ cstate = "live"
    /\ other.live
    /\ calls < MaxCalls
    /\ LET r == NtfsIndexEntriesNext(vol, other.pos, other.end, io)
           u == NtfsIndexEntriesNext(vol, other.solo.pos, other.solo.end, io)
       IN  other' = [live |-> TRUE,
                     pos  |-> r.pos,
                     end  |-> other.end,
                     item |-> [kind |-> r.kind, err |-> r.err, entry |-> r.entry,
                               start |-> other.pos],
                     solo |-> [pos |-> u.pos, end |-> other.solo.end,
                               kind |-> u.kind, err |-> u.err, entry |-> u.entry]]
    /\ calls' = calls + 1
    /\ UNCHANGED <<vol, debugAssertions, cstate, pos, end, attached, lastRes,
                   accRes, twin, fileVars>>

ShareNext ==
    \/ \E e \in EndChoices \ {0} : TermNew(e)
    \/ CloneEntries
    \/ \E e \in EndChoices : NewOther(e)
    \/ \E io \in IoOutcomes : NextDetached(io)
    \/ \E io \in IoOutcomes : NextOther(io)

SpecShare == ShareInit /\ [][ShareNext]_vars

----------------------------------------------------------------------------
\* Properties.

\* Is the bit of weight w (a power of two) set in x
HasBit(x, w) == (x \div w) % 2 = 1

\* C1: exhaustion is terminal.  A next call that follows a call that returned
\* None returns None too, on the bare cursor and on an attached iterator
\* built from it (under Spec).
C1_ExhaustionIsTerminal ==
    lastRes.prev.kind = "None" => lastRes.cur.kind = "None"

\* C1 witness: an attached iterator returned None after a call that had
\* already returned None.
C1_Witness ==
    /\ lastRes.prev.kind = "None"
    /\ lastRes.cur.kind = "None"
    /\ lastRes.reader # 0

C3_NoEntryAtOrPastEnd ==
    lastRes.cur.kind = "Ok" => lastRes.cur.start < end

\* C3 witness: after an entry was yielded, a call that began exactly at end
\* returned None although a whole header lies there.
C3_Witness ==
    /\ lastRes.prev.kind = "Ok"
    /\ lastRes.cur.kind = "None"
    /\ lastRes.cur.start = end
    /\ end + IndexEntryHeaderFields <= Len(vol)

\* C4: a next call that yields an entry whose flag byte on disk has LAST_ENTRY
\* set yields the header decoded there, leaves the cursor exactly at end, and
\* the call that follows returns None (under Spec).
C4_LastEntryEndsTraversal ==
    /\ (lastRes.cur.kind = "Ok" /\ HasBit(vol[lastRes.cur.start + 13], LAST_ENTRY)) =>
            /\ HasBit(lastRes.cur.entry.header.flags, LAST_ENTRY)
            /\ lastRes.cur.entry.value = lastRes.cur.start
            /\ pos = end
    /\ (lastRes.prev.kind = "Ok" /\ HasBit(vol[lastRes.prev.start + 13], LAST_ENTRY)) =>
            lastRes.cur.kind = "None"

\* C4 witness: None followed a LAST_ENTRY entry although another whole entry
\* lies between that entry and end.
C4_Witness ==
    /\ lastRes.prev.kind = "Ok"
    /\ HasBit(lastRes.prev.entry.header.flags, LAST_ENTRY)
    /\ lastRes.prev.start + 2 * INDEX_ENTRY_HEADER_SIZE <= end
    /\ end <= Len(vol)
    /\ lastRes.cur.kind = "None"

C6_LastEntryHasNoKey ==
    (accRes.op = "key" /\ HasBit(accRes.entry.header.flags, LAST_ENTRY)) =>
        /\ accRes.kind = "None"
        /\ ~accRes.decoderCalled

\* C6 witness: key_structured_value was called on a LAST_ENTRY entry that
\* stores a nonzero key_length.
C6_Witness ==
    /\ accRes.op = "key"
    /\ HasBit(accRes.entry.header.flags, LAST_ENTRY)
    /\ accRes.entry.header.key_length > 0

\* C7: subnode_vcn returns None exactly when HAS_SUBNODE is unset; when it is
\* set the result is what reading 8 bytes little-endian at offset
\* entry start + index_entry_length - 8 of the value gives, for every
\* index_entry_length: the integer there, or an error when no 8 bytes can be
\* read at that offset (under SpecEntry).
C7_SubnodeVcnReadsTail ==
    accRes.op = "vcn" =>
        LET off == accRes.entry.value + accRes.entry.header.index_entry_length - 8
        IN  /\ accRes.kind = "None" <=> ~HasBit(accRes.entry.header.flags, HAS_SUBNODE)
            /\ HasBit(accRes.entry.header.flags, HAS_SUBNODE) =>
                   IF accRes.io = "ok" /\ off >= 0 /\ off + 8 <= Len(vol)
                   THEN /\ accRes.kind = "Ok"
                        /\ accRes.val = [i \in 1..4 |->
                                            vol[off + 2 * i - 1] + 256 * vol[off + 2 * i]]
                   ELSE accRes.kind = "Err"

\* C7 witness: a VCN was read for an entry whose index_entry_length is below
\* 8, from bytes that lie before the entry's start.
C7_Witness ==
    /\ accRes.op = "vcn"
    /\ accRes.kind = "Ok"
    /\ accRes.entry.header.index_entry_length < 8
    /\ accRes.val # <<0, 0, 0, 0>>

\* C8: when the header at position can be read, NtfsFile::new fails with the
\* signature error iff the 4 bytes at position differ from "FILE"; the error
\* carries the position passed, "FILE" and the 4 bytes read, and no NtfsFile
\* is returned; otherwise the NtfsFile is returned (under SpecFile).
C8_SignatureMismatchIffNotFILE ==
    (fileRes.kind # "NoCall" /\ fileRes.io = "ok"
        /\ fileRes.arg + FileRecordHeaderSize <= Len(disk)) =>
        LET actual == SubSeq(disk, fileRes.arg + 1, fileRes.arg + 4)
        IN  /\ fileRes.kind \in {"Ok", "ErrSig"}
            /\ fileRes.kind = "ErrSig" <=> actual # << 70, 73, 76, 69 >>
            /\ fileRes.kind = "ErrSig" =>
                   /\ fileRes.err.position = fileRes.arg
                   /\ fileRes.err.expected = << 70, 73, 76, 69 >>
                   /\ fileRes.err.actual = actual
                   /\ fileRes.file = NoNtfsFile

\* C8 witness: the second record, whose signature is "FILF", was rejected.
C8_Witness ==
    /\ fileRes.kind = "ErrSig"
    /\ fileRes.arg > 0
    /\ fileRes.err.actual = << 70, 73, 76, 70 >>

\* C9 as claimed: the bits flags() returns equal the 16-bit flags field stored
\* in the File Record header (under SpecFile).
C9_FlagsPreserveUnknownBits ==
    fileRes.flagsCalled =>
        fileRes.flags = disk[fileRes.arg + 23] + 256 * disk[fileRes.arg + 24]

\* C9 as amended: the bits flags() returns are the IN_USE and IS_DIRECTORY
\* bits of the stored field, the two lowest; every other bit is dropped
\* (under SpecFile).
C9_FlagsTruncateUnknownBits ==
    fileRes.flagsCalled =>
        fileRes.flags = (disk[fileRes.arg + 23] + 256 * disk[fileRes.arg + 24]) % 4

\* C9 witness: flags() was called on a record that stores unrecognised bits.
C9_Witness ==
    /\ fileRes.flagsCalled
    /\ disk[fileRes.arg + 23] + 256 * disk[fileRes.arg + 24] >= 4
    /\ fileRes.flags > 0

C11_TwoEntriesThenNone ==
    /\ calls = 1 =>
            /\ lastRes.cur.kind = "Ok"
            /\ lastRes.cur.start = 0
            /\ lastRes.cur.entry.header.index_entry_length = 32
            /\ lastRes.cur.entry.header.key_length = 4
            /\ ~HasBit(lastRes.cur.entry.header.flags, LAST_ENTRY)
    /\ calls = 2 =>
            /\ lastRes.cur.kind = "Ok"
            /\ lastRes.cur.start = 32
            /\ lastRes.cur.entry.header.index_entry_length = 16
            /\ HasBit(lastRes.cur.entry.header.flags, LAST_ENTRY)
    /\ calls >= 3 => lastRes.cur.kind = "None"
    /\ calls = 3 => (lastRes.prev.kind = "Ok" /\ lastRes.prev.start = 32)
    /\ (accRes.op = "key" /\ accRes.entry.value = 0) =>
            /\ accRes.kind = "Ok"
            /\ accRes.val = << vol[17], vol[18], vol[19], vol[20] >>
    /\ (accRes.op # "none" /\ accRes.entry.value = 32) => accRes.kind = "None"

\* C11 witness: the third call returned None, and the second entry, still
\* held, was asked for its key.
C11_Witness ==
    /\ calls = 3
    /\ lastRes.cur.kind = "None"
    /\ accRes.op = "key"
    /\ accRes.entry.value = 32

\* C12: end bounds every read of the traversal: every entry next yields has
\* its 16-byte header inside [0, end), and the cursor's position never exceeds
\* end. Stated for cursors built as new requires (end within the value); the
\* code only compares the entry's start with end, so this does not hold.
C12_EndBoundsEveryRead ==
    (cstate = "live" /\ end <= ValueLen(vol)) =>
        /\ lastRes.cur.kind = "Ok" =>
                lastRes.cur.start + INDEX_ENTRY_HEADER_SIZE <= end
        /\ pos <= end

\* C13: a next call that yields an entry without LAST_ENTRY leaves the
\* position at the call's start plus the entry's index_entry_length; the call
\* after it starts there, and unless that position has reached end (when it
\* returns None) it reads the header that begins there: an entry it yields
\* carries exactly that header.
C13_AdvanceByEntryLength ==
    /\ (lastRes.cur.kind = "Ok"
            /\ ~HasBit(lastRes.cur.entry.header.flags, LAST_ENTRY)) =>
        pos = lastRes.cur.start + lastRes.cur.entry.header.index_entry_length
    /\ (lastRes.prev.kind = "Ok"
            /\ ~HasBit(lastRes.prev.entry.header.flags, LAST_ENTRY)) =>
        /\ lastRes.cur.start =
               lastRes.prev.start + lastRes.prev.entry.header.index_entry_length
        /\ lastRes.cur.kind = "None" <=> lastRes.cur.start >= end
        /\ lastRes.cur.kind = "Ok" =>
               /\ lastRes.cur.entry.value = lastRes.cur.start
               /\ lastRes.cur.entry.header = IndexEntryHeader(vol, lastRes.cur.start)

\* C13 witness: a 32-byte entry yielded at 0, then the entry at 32 yielded.
C13_Witness ==
    /\ lastRes.prev.kind = "Ok"
    /\ lastRes.prev.start = 0
    /\ lastRes.prev.entry.header.index_entry_length = 32
    /\ ~HasBit(lastRes.prev.entry.header.flags, LAST_ENTRY)
    /\ lastRes.cur.kind = "Ok"
    /\ lastRes.cur.start = 32

\* C14: once the cursor is constructed, no step (a next call that yields,
\* fails or finds the cursor exhausted, an attach, a detach) moves its
\* position backwards, and none changes end.
C14_PositionNeverDecreases ==
    [][cstate = "live" => (pos' >= pos /\ end' = end)]_vars

\* C14 witness: two entries yielded in a row, the position beyond both.
C14_Witness ==
    /\ lastRes.prev.kind = "Ok"
    /\ lastRes.cur.kind = "Ok"
    /\ lastRes.prev.start < lastRes.cur.start
    /\ lastRes.cur.start < pos
    /\ end > 0

\* C15: a next call that returns the error of the header's decoding leaves
\* position and end as they were before the call, and the call made after such
\* an error starts at the same offset and decodes there again (it yields the
\* entry at that offset or fails; it never reports exhaustion).
C15_DecodeErrorKeepsCursor ==
    [][/\ (calls' = calls + 1 /\ lastRes'.cur.kind = "Err"
                /\ lastRes'.cur.err = "decode") =>
            (pos' = pos /\ end' = end /\ lastRes'.cur.start = pos)
       /\ (calls' = calls + 1 /\ lastRes.cur.kind = "Err"
                /\ lastRes.cur.err = "decode") =>
            /\ lastRes'.cur.start = lastRes.cur.start
            /\ lastRes'.cur.kind # "None"
            /\ lastRes'.cur.kind = "Ok" =>
                   lastRes'.cur.entry.header = IndexEntryHeader(vol, lastRes.cur.start)
      ]_vars

\* C15 witness: the header at offset 16 failed to decode twice in a row, the
\* cursor still at 16.
C15_Witness ==
    /\ lastRes.prev.kind = "Err"
    /\ lastRes.prev.err = "decode"
    /\ lastRes.cur.kind = "Err"
    /\ lastRes.cur.err = "decode"
    /\ lastRes.cur.start = 16
    /\ pos = 16

\* C16: over a value whose reads all succeed, a caller that keeps calling
\* next is eventually returned None, also when an entry that is not the last
\* declares index_entry_length = 0 (under SpecTerm).  The code yields such an
\* entry forever.
C16_TraversalTerminates ==
    (cstate = "live") ~> (lastRes.cur.kind = "None")

C18_AccessorsLeaveTraversalAlone ==
    [][/\ lastRes'.cur.kind = "Ok" =>
            /\ lastRes'.cur.entry.value = lastRes'.cur.start
            /\ lastRes'.cur.entry.header = IndexEntryHeader(vol, lastRes'.cur.start)
       /\ (calls' = calls /\ cstate' = cstate) =>
            /\ pos' = pos
            /\ end' = end
            /\ lastRes' = lastRes
            /\ accRes'.entry = accRes'.origin
            /\ accRes'.entry.header = IndexEntryHeader(vol, accRes'.entry.value)
            /\ (accRes.op = accRes'.op /\ accRes.io = accRes'.io
                    /\ accRes.origin = accRes'.origin) =>
                   (accRes'.kind = accRes.kind /\ accRes'.val = accRes.val)
      ]_vars

\* C18 witness: the entry yielded at offset 0 was asked for its subnode VCN
\* and answered, the cursor having moved on to yield a later entry.
C18_Witness ==
    /\ accRes.op = "vcn"
    /\ accRes.kind = "Ok"
    /\ accRes.entry.value = 0
    /\ accRes.entry.header.index_entry_length = 32
    /\ lastRes.cur.kind = "Ok"
    /\ lastRes.cur.start = 32
    /\ pos > 32

====
